---- MODULE Spec2Model ----
(***************************************************************************)
(* A model of the connection-request automation of linkedin_scraper:       *)
(*   connection_automation/tracker.py         the ledger (table            *)
(*                                            connections)                 *)
(*   connection_automation/safety_manager.py  the daily / weekly quotas    *)
(*   connection_automation/connection_sender.py  one target's request      *)
(*   scripts/run_connection_sender.py         the run loop (main)          *)
(*                                                                         *)
(* Time is counted in ticks, TicksPerDay ticks to a local calendar day,    *)
(* tick 0 being a local midnight.  The clock only reads the instants of    *)
(* Times: some instants of the first days and some a week later.           *)
(***************************************************************************)
EXTENDS Integers, Sequences, FiniteSets, TLC

\* ------------------------------------------------------------ bounds
\* The profile ids (poster_profile_id) that input files may hold.
Targets == {"t1", "t2", "t3"}
\* The profile ids of the input files of Spec.
FewTargets == {"t1", "t2"}
\* Clock ticks to one local calendar day.
TicksPerDay == 2
\* config.DAILY_LIMIT (20) and config.WEEKLY_LIMIT (80), scaled down so that
\* a handful of targets reaches them; config.PAUSE_EVERY_N (5) likewise.
DAILY_LIMIT == 1
WEEKLY_LIMIT == 2
PAUSE_EVERY_N == 2
\* The largest daily limit the operator types in (line 78 of main).
MaxDailyLimit == 2
\* The longest tail of a poster_profile_url, in tokens, and the most job
\* records of a scraped file.
MaxUrlLen == 2
MaxJobs == 2

\* ------------------------------------------------------------ constants
\* timedelta(days=7)
DaysPerWeek == 7

Week == DaysPerWeek * TicksPerDay
\* The instants the clock reads: the first day and the midnight after it,
\* then the midnight a week after tick 0 and the tick after that.
Times == (0 .. TicksPerDay) \cup {Week, Week + 1}
\* int(daily_limit_input): any integer, a negative one and 0 included.
DailyLimitInputs == (-1) .. MaxDailyLimit

NONE == "None"
Statuses == {"success", "already_connected", "failed"}

\* ------------------------------------------------------------ state
VARIABLES
    clock,                \* datetime.now(), in ticks
    connections,          \* the rows of table connections, in rowid order
    daily_limit,          \* the daily limit the operator supplies to every run
    pc,                   \* where main() is; "idle": no run in progress
    profiles,             \* load_and_prepare_data's result (profile ids)
    profiles_to_contact,  \* the batch after the already_contacted filter
    max_to_send,
    i,                    \* the loop index of enumerate(..., 1)
    sent_count, already_connected_count, failed_count,
    can_send, reason,     \* the last can_send_request() of main
    suggestion,           \* what line 124 printed of suggest_next_run_time()
    located, clicked,     \* this attempt: Connect button found / clicked
    result,               \* this attempt's outcome, before it is recorded
    indicator,            \* this attempt: the indicator is_already_connected met
    answers,              \* this attempt: what the page will answer to the
                          \* calls of send_connection_with_verification
    slept,                \* the random_sleep calls of the last iteration
    visited,              \* history: profiles navigated to in this run
    clicks,               \* history: Connect clicks per profile, all runs
    unclean,              \* history: some run was cut off inside an attempt
    exit,                 \* how the last run of the script ended: "returned",
                          \* "interrupted" or the fatal error
    files,                \* the batches the operator's input files hold
    ret,                  \* the last direct call of the ledger API, its result
    first                 \* history: the first mark_as_sent call of each id

\* The operator's inputs, fixed for a behaviour.
inputVars == <<daily_limit, files>>
\* The locals of main().
runVars == <<pc, profiles, profiles_to_contact, max_to_send, i, sent_count,
             already_connected_count, failed_count, can_send, reason,
             suggestion>>
\* The locals of one attempt.
attemptVars == <<located, clicked, result, indicator, answers>>
apiVars == <<ret, first>>

vars == <<clock, connections, inputVars, runVars, attemptVars, slept, visited,
          clicks, unclean, exit, apiVars>>

\* ------------------------------------------------------------ helpers
Range(s) == {s[k] : k \in 1 .. Len(s)}

Min(a, b) == IF a <= b THEN a ELSE b

\* A slip: limit - used without max(0, ...).
MaxDropped(a, b) == b

Max(a, b) == IF a >= b THEN a ELSE b

\* The rows of a table that satisfy a WHERE clause, counted.
CountRows(rows, Where(_)) == Cardinality({k \in 1 .. Len(rows) : Where(rows[k])})

\* ------------------------------------------------------------ tracker.py
Row(profile_id, meta, sent_at, status, error_message) ==
    [profile_id |-> profile_id, meta |-> meta, sent_at |-> sent_at,
     status |-> status, error_message |-> error_message]

\* A slip: WHERE profile_id = ? AND status = 'success'.
already_contacted_success(profile_id) ==
    \E k \in 1 .. Len(connections) :
        /\ connections[k].profile_id = profile_id
        /\ connections[k].status = "success"

\* A slip: WHERE profile_id = ? AND status != 'failed', failures are retried.
already_contacted_retry(profile_id) ==
    \E k \in 1 .. Len(connections) :
        /\ connections[k].profile_id = profile_id
        /\ connections[k].status # "failed"

\* SELECT COUNT(*) FROM connections WHERE profile_id = ?  ...  count > 0
already_contacted(profile_id) ==
    LET Where(r) == r.profile_id = profile_id
    IN CountRows(connections, Where) > 0

\* A slip: INSERT OR REPLACE, the row of the id is rewritten.
mark_as_sent_replace(profile_id, meta, status, error_message) ==
    [rows |-> [k \in 1 .. Len(connections) |->
                 IF connections[k].profile_id = profile_id
                 THEN Row(profile_id, meta, clock, status, error_message)
                 ELSE connections[k]]
              \o (IF \E k \in 1 .. Len(connections) :
                        connections[k].profile_id = profile_id
                  THEN <<>>
                  ELSE <<Row(profile_id, meta, clock, status, error_message)>>),
     raised |-> FALSE]

\* A slip: profile_id without UNIQUE, every call inserts a row.
mark_as_sent_append(profile_id, meta, status, error_message) ==
    [rows |-> Append(connections,
                     Row(profile_id, meta, clock, status, error_message)),
     raised |-> FALSE]

\* A slip: the new row is put before the rows of the table.
mark_as_sent_front(profile_id, meta, status, error_message) ==
    IF \E k \in 1 .. Len(connections) : connections[k].profile_id = profile_id
    THEN [rows |-> connections, raised |-> FALSE]
    ELSE [rows |-> <<Row(profile_id, meta, clock, status, error_message)>>
                   \o connections,
          raised |-> FALSE]

\* The INSERT of mark_as_sent: profile_id is UNIQUE, so a second row for an
\* id raises sqlite3.IntegrityError, which mark_as_sent swallows.
\* rows: the table afterwards; raised: an exception reaches the caller.
mark_as_sent(profile_id, meta, status, error_message) ==
    IF \E k \in 1 .. Len(connections) : connections[k].profile_id = profile_id
    THEN [rows |-> connections, raised |-> FALSE]
    ELSE [rows |-> Append(connections,
                          Row(profile_id, meta, clock, status, error_message)),
          raised |-> FALSE]

\* A slip: "except Exception: pass" around the INSERT.
cursor_execute_swallowed(w, store) ==
    [rows |-> IF store = "ok" THEN w.rows ELSE connections, raised |-> FALSE]

\* The try block of mark_as_sent: only sqlite3.IntegrityError is caught.  Any
\* other sqlite3 error of execute or commit (store = "error") leaves
\* mark_as_sent with nothing written.
cursor_execute(w, store) ==
    IF store = "ok" THEN w ELSE [rows |-> connections, raised |-> TRUE]

\* ------------------------------------------------------------ safety_manager.py
\* self.daily_limit = daily_limit or config.DAILY_LIMIT
sm_daily_limit == IF daily_limit = 0 THEN DAILY_LIMIT ELSE daily_limit

\* main builds SafetyManager(daily_limit=daily_limit): weekly_limit is None.
sm_weekly_limit == WEEKLY_LIMIT

\* A slip: datetime.now() without .replace(hour=0, ...).
today_start_now == clock

\* datetime.now().replace(hour=0, minute=0, second=0, microsecond=0)
today_start == clock - (clock % TicksPerDay)

\* A slip: timedelta(days=1) in place of timedelta(days=7).
week_ago_day == clock - TicksPerDay

\* datetime.now() - timedelta(days=7)
week_ago == clock - Week

\* A slip: the query without AND status = 'success'.
get_requests_today_any ==
    LET Where(r) == r.sent_at >= today_start
    IN CountRows(connections, Where)

\* A slip: the rows of status failed are counted.
get_requests_today_failed ==
    LET Where(r) == r.sent_at >= today_start /\ r.status = "failed"
    IN CountRows(connections, Where)

\* Lines 29-51.
get_requests_today ==
    LET Where(r) == r.sent_at >= today_start /\ r.status = "success"
    IN CountRows(connections, Where)

\* A slip: the count is taken once, when the Safety Manager of the run is
\* built, and kept.
get_requests_this_week_cached ==
    LET Where(r) == /\ r.sent_at >= week_ago
                    /\ r.status = "success"
                    /\ r.profile_id \notin Range(visited)
    IN CountRows(connections, Where)

\* Lines 53-75.
get_requests_this_week ==
    LET Where(r) == r.sent_at >= week_ago /\ r.status = "success"
    IN CountRows(connections, Where)

\* A slip: > in place of >= in both comparisons.
can_send_request_gt ==
    IF get_requests_today > sm_daily_limit
    THEN <<FALSE, "Daily limit reached">>
    ELSE IF get_requests_this_week > sm_weekly_limit
         THEN <<FALSE, "Weekly limit reached">>
         ELSE <<TRUE, "OK">>

\* Lines 77-94: the daily gate is tested first, then the weekly gate.
can_send_request ==
    IF get_requests_today >= sm_daily_limit
    THEN <<FALSE, "Daily limit reached">>
    ELSE IF get_requests_this_week >= sm_weekly_limit
         THEN <<FALSE, "Weekly limit reached">>
         ELSE <<TRUE, "OK">>

get_quota_status ==
    [daily_used |-> get_requests_today,
     daily_limit |-> sm_daily_limit,
     daily_remaining |-> Max(0, sm_daily_limit - get_requests_today),
     weekly_used |-> get_requests_this_week,
     weekly_limit |-> sm_weekly_limit,
     weekly_remaining |-> Max(0, sm_weekly_limit - get_requests_this_week),
     can_send |-> get_requests_today < sm_daily_limit
                  /\ get_requests_this_week < sm_weekly_limit]

\* A slip: tomorrow = datetime.now() + timedelta(days=1).
get_daily_reset_time_now == clock + TicksPerDay

\* Line 150: the local midnight that ends today.
get_daily_reset_time == today_start + TicksPerDay

\* UTC wall-clock time minus local wall-clock time, in ticks.
UtcOffsets == {-1, 0, 1}

\* Lines 185-191: the rows of the query; SQLite's datetime('now', '-7 days')
\* is UTC, sent_at holds the local datetime.now() of mark_as_sent.
oldest_request_rows(utc_offset) ==
    {k \in 1 .. Len(connections) :
        /\ connections[k].sent_at >= clock + utc_offset - Week
        /\ connections[k].status = "success"}

\* Lines 164-205.  kind: which message is returned; until: the time to wait
\* the message names, in ticks (0 when it names none).
suggest_next_run_time(utc_offset) ==
    LET status == get_quota_status
        hits == oldest_request_rows(utc_offset)
        oldest_request ==
            CHOOSE t \in {connections[k].sent_at : k \in hits} :
                \A k \in hits : t <= connections[k].sent_at
    IN IF status.daily_remaining > 0 /\ status.weekly_remaining > 0
       THEN [kind |-> "now", until |-> 0]
       ELSE IF status.daily_used >= sm_daily_limit
       THEN [kind |-> "daily", until |-> get_daily_reset_time - clock]
       ELSE IF status.weekly_used >= sm_weekly_limit
       THEN IF hits # {}
            THEN [kind |-> "weekly", until |-> oldest_request + Week - clock]
            ELSE [kind |-> "weekly, wait 7 days", until |-> 0]
       ELSE [kind |-> "check", until |-> 0]

\* ------------------------------------------------------------ data of a run
\* The deduplicated, non-empty batches load_and_prepare_data can return.
RECURSIVE Perms(_)
Perms(S) ==
    IF S = {} THEN {<<>>}
    ELSE UNION {{<<x>> \o p : p \in Perms(S \ {x})} : x \in S}

Batches(ids) == UNION {Perms(S) : S \in (SUBSET ids) \ {{}}}

\* poster_profile_url, poster_name, job_title, company: what a caller of
\* mark_as_sent may pass, and what the input files hold for a profile.
Metas == {"m1", "m2"}

MetaOf(profile_id) == "m1"

\* The click history is kept while every run has ended between two attempts.
NoClicks == [t \in Targets |-> 0]

NoResult == [status |-> NONE, message |-> NONE]

\* A slip: insert(0, profile) in place of append(profile).
RECURSIVE FilterContacted_front(_)
FilterContacted_front(ps) ==
    IF ps = <<>> THEN <<>>
    ELSE IF ~already_contacted(Head(ps))
         THEN FilterContacted_front(Tail(ps)) \o <<Head(ps)>>
         ELSE FilterContacted_front(Tail(ps))

\* for profile in profiles: if profile_id and not already_contacted: append
RECURSIVE FilterContacted(_)
FilterContacted(ps) ==
    IF ps = <<>> THEN <<>>
    ELSE IF ~already_contacted(Head(ps))
         THEN <<Head(ps)>> \o FilterContacted(Tail(ps))
         ELSE FilterContacted(Tail(ps))

\* ------------------------------------------------------------ tracker.py, queries
Ids(rows) == {rows[k].profile_id : k \in 1 .. Len(rows)}

\* A slip: SELECT * FROM connections, the rows in rowid order.
get_all_sent_connections_unordered == {[k \in 1 .. Len(connections) |-> k]}

\* SELECT * FROM connections ORDER BY sent_at DESC: the rows in an order SQL
\* allows (rows of equal sent_at come in either order).
get_all_sent_connections ==
    {p \in Perms(1 .. Len(connections)) :
        \A a, b \in 1 .. Len(p) :
            a < b => connections[p[a]].sent_at >= connections[p[b]].sent_at}

get_statistics ==
    LET N(st) == LET Where(r) == r.status = st IN CountRows(connections, Where)
    IN [total |-> Len(connections), success |-> N("success"),
        already_connected |-> N("already_connected"), failed |-> N("failed")]

\* conn['error_message'] or '': what export_to_csv writes for one row.
CsvRow(r) == [r EXCEPT !.error_message = IF @ = NONE THEN "" ELSE @]

\* ------------------------------------------------------------ connection_sender.py
\* The selectors of is_already_connected, in the order they are tried.
Indicators == {"Message button", "Pending button", "Pending text"}

\* A slip: only the Message button is looked for, a pending request is missed.
is_already_connected_message(found) == found = "Message button"

\* found: the first selector whose find_elements returned elements, NONE when
\* every selector returned nothing or raised (a raising selector is skipped).
is_already_connected(found) == found \in Indicators

\* What the browser answers to the calls of one send_connection_with_verification:
\*   find     find_connect_button: a button, None, or an exception other than
\*            NoSuchElementException
\*   click    connect_button.click()
\*   modal    WebDriverWait(...).until(Send button present)
\*   confirm  send_button.click()
\*   pending  the Pending button looked up after a modal timeout
\*   verify   the Pending button looked up by verify_connection_sent
DriverAnswers ==
    [find : {"button", "none", "error"},
     click : {"ok", "error"},
     modal : {"send", "timeout", "error"},
     confirm : {"ok", "error"},
     pending : {"found", "absent"},
     verify : {"found", "absent", "error"}]

SendResult(loc, clk, ok, msg) ==
    [located |-> loc, clicked |-> clk, success |-> ok, message |-> msg,
     raised |-> FALSE]

\* A slip: the request is taken as sent whenever the modal does not appear.
after_modal_timeout_sent(d) ==
    SendResult(TRUE, TRUE, TRUE, "Connection request sent (no modal)")

\* Lines 152-163: except TimeoutException; a Pending lookup that raises is
\* passed over.
after_modal_timeout(d) ==
    IF d.pending = "found"
    THEN SendResult(TRUE, TRUE, TRUE, "Connection request sent (no modal)")
    ELSE SendResult(TRUE, TRUE, FALSE, "Modal timeout - unclear if request sent")

\* Lines 137-163: after connect_button.click().
after_click(d) ==
    IF d.modal = "send"
    THEN IF d.confirm = "ok"
         THEN SendResult(TRUE, TRUE, TRUE, "Connection request sent successfully")
         ELSE SendResult(TRUE, TRUE, FALSE, "Error sending request")
    ELSE IF d.modal = "timeout"
    THEN after_modal_timeout(d)
    ELSE SendResult(TRUE, TRUE, FALSE, "Error sending request")

\* A slip: no "if not connect_button" test, None.click() raises.
send_connection_request_unchecked(d) ==
    IF d.find \in {"error", "none"}
    THEN SendResult(FALSE, FALSE, FALSE, "Error sending request")
    ELSE IF d.click = "error"
    THEN SendResult(TRUE, TRUE, FALSE, "Error sending request")
    ELSE after_click(d)

\* try: ... except Exception as e: return False, f"Error sending request: ..."
send_connection_request(d) ==
    IF d.find = "error"
    THEN SendResult(FALSE, FALSE, FALSE, "Error sending request")
    ELSE IF d.find = "none"
    THEN SendResult(FALSE, FALSE, FALSE, "Connect button not found")
    ELSE IF d.click = "error"
    THEN SendResult(TRUE, TRUE, FALSE, "Error sending request")
    ELSE after_click(d)

\* The answers send_connection_with_verification gets to see: a call that is
\* not reached has no answer.
Consulted(d) ==
    LET clk == IF d.find = "button" THEN d.click ELSE "-"
        mod == IF clk = "ok" THEN d.modal ELSE "-"
        cnf == IF mod = "send" THEN d.confirm ELSE "-"
        pnd == IF mod = "timeout" THEN d.pending ELSE "-"
        ver == IF cnf = "ok" \/ pnd = "found" THEN d.verify ELSE "-"
    IN [find |-> d.find, click |-> clk, modal |-> mod, confirm |-> cnf,
        pending |-> pnd, verify |-> ver]

NoAnswers ==
    [find |-> "-", click |-> "-", modal |-> "-", confirm |-> "-",
     pending |-> "-", verify |-> "-"]

\* verify_connection_sent catches NoSuchElementException only: any other
\* exception of the driver leaves send_connection_with_verification, and main.
send_connection_with_verification(d) ==
    LET r == send_connection_request(d)
    IN IF ~r.success THEN r
       ELSE IF d.verify = "found"
       THEN [r EXCEPT !.message = "Connection request sent and verified"]
       ELSE IF d.verify = "absent"
       THEN [r EXCEPT !.message = "Connection request sent (verification skipped)"]
       ELSE [r EXCEPT !.raised = TRUE]

\* The terminal outcome of an attempt, read off what main is handed: the
\* messages of lines 214 and 218 tell a verified success from an unverified one.
Outcome(res) ==
    IF res.status = "already_connected" THEN "AlreadyRelated"
    ELSE IF res.status = "failed" THEN "Failed"
    ELSE IF res.message = "Connection request sent and verified"
    THEN "Completed/Verified"
    ELSE IF res.message = "Connection request sent (verification skipped)"
    THEN "Completed/Unverified"
    ELSE "None"

\* ------------------------------------------------------------ Init
NoRow == Row(NONE, NONE, 0, NONE, NONE)

NoFirst == [t \in Targets |-> NoRow]

\* Line 124 was not reached.
NoSuggestion == [kind |-> NONE, until |-> 0]

NoCall == [op |-> NONE, arg |-> NONE, value |-> NONE, raised |-> FALSE]

InitWith(inputs, limits) ==
    /\ files = inputs
    /\ daily_limit \in limits
    /\ clock = 0
    /\ connections = <<>>
    /\ pc = "idle"
    /\ profiles = <<>>
    /\ profiles_to_contact = <<>>
    /\ max_to_send = 0
    /\ i = 0
    /\ sent_count = 0
    /\ already_connected_count = 0
    /\ failed_count = 0
    /\ can_send = FALSE
    /\ reason = NONE
    /\ suggestion = NoSuggestion
    /\ located = FALSE
    /\ clicked = FALSE
    /\ result = NoResult
    /\ indicator = NONE
    /\ answers = NoAnswers
    /\ slept = <<>>
    /\ visited = <<>>
    /\ clicks = NoClicks
    /\ unclean = FALSE
    /\ exit = NONE
    /\ ret = NoCall
    /\ first = NoFirst

\* The operator's files hold any batch of FewTargets; any daily limit.
Init == InitWith(Batches(FewTargets), DailyLimitInputs)

\* An input file of three profiles and one that holds the second of them;
\* the largest daily limit.
InitThree == InitWith({<<"t3", "t1", "t2">>, <<"t1">>}, {MaxDailyLimit})

\* The file of three profiles, and a daily limit that leaves a profile in
\* the budget after PAUSE_EVERY_N requests.
InitPacing == InitWith({<<"t3", "t1", "t2">>}, {PAUSE_EVERY_N + 1})

\* No run: the ledger and the Safety Manager are called directly.
InitLedger == InitWith({}, {DAILY_LIMIT})

\* The locals of main() that are read no more.
LocalsReset ==
    /\ profiles' = <<>>
    /\ profiles_to_contact' = <<>>
    /\ max_to_send' = 0
    /\ i' = 0
    /\ sent_count' = 0
    /\ already_connected_count' = 0
    /\ failed_count' = 0
    /\ can_send' = FALSE
    /\ reason' = NONE
    /\ suggestion' = NoSuggestion
    /\ located' = FALSE
    /\ clicked' = FALSE
    /\ result' = NoResult
    /\ indicator' = NONE
    /\ answers' = NoAnswers
    /\ slept' = <<>>
    /\ visited' = <<>>

\* main() has returned or raised.
RunReset == pc' = "idle" /\ LocalsReset

\* Wall-clock time passes: the clock reads its next instant.
Tick ==
    /\ \E t \in Times :
          /\ t > clock
          /\ \A u \in Times : u > clock => t <= u
          /\ clock' = t
    /\ UNCHANGED <<connections, inputVars, runVars, attemptVars, slept, visited,
                   clicks, unclean, exit, apiVars>>

\* ------------------------------------------------------------ run_connection_sender.py
\* A slip: the loop reads the head of the batch in every iteration.
Current_head == profiles_to_contact[1]

\* Lines 195-200: the profile of this iteration.
Current == profiles_to_contact[i]

\* Line 135: "(Skipped N already contacted)".
skipped_reported == Len(profiles) - Len(profiles_to_contact)

\* A slip: the whole batch is the budget.
Budget_retained(retained, daily_remaining) == retained

\* Line 189: max_to_send = min(len(profiles_to_contact), daily_remaining)
Budget(retained, daily_remaining) == Min(retained, daily_remaining)

\* Lines 217, 224, 235 and 248: the counter of the outcome is incremented.
Counted(n, status, of) == IF status = of THEN n + 1 ELSE n

\* Lines 260-264: the counts the summary prints.
RunSummary ==
    [attempted |-> sent_count + already_connected_count + failed_count,
     sent |-> sent_count,
     already_connected |-> already_connected_count,
     failed |-> failed_count]

\* Lines 108-139: the components are built, the quota is checked and the
\* batch is filtered.
StartRun ==
    /\ pc = "idle"
    /\ \E batch \in files :
          /\ profiles' = batch
          /\ can_send' = can_send_request[1]
          /\ reason' = can_send_request[2]
          /\ IF ~can_send_request[1]
             THEN /\ pc' = "refused"
                  /\ profiles_to_contact' = <<>>
                  /\ \E utc_offset \in UtcOffsets :
                        suggestion' = suggest_next_run_time(utc_offset)
             ELSE /\ profiles_to_contact' = FilterContacted(batch)
                  /\ pc' = IF FilterContacted(batch) = <<>>
                           THEN "nothing" ELSE "login"
                  /\ suggestion' = NoSuggestion
    /\ exit' = NONE
    /\ UNCHANGED <<clock, connections, inputVars, max_to_send, i, sent_count,
                   already_connected_count, failed_count, attemptVars, slept,
                   visited, clicks, unclean, apiVars>>

\* A slip: the message of the check is printed and main goes on.
Return_goes_on ==
    /\ pc \in {"refused", "nothing"}
    /\ pc' = "login"
    /\ UNCHANGED <<clock, connections, inputVars, profiles, profiles_to_contact,
                   max_to_send, i, sent_count, already_connected_count,
                   failed_count, can_send, reason, suggestion, attemptVars,
                   slept, visited, clicks, unclean, exit, apiVars>>

\* Lines 122-125 and 137-139: main returns before a browser is started.
Return ==
    /\ pc \in {"refused", "nothing"}
    /\ RunReset
    /\ exit' = "returned"
    /\ UNCHANGED <<clock, connections, inputVars, clicks, unclean, apiVars>>

\* Lines 148-193: the browser session; then the budget of the loop.
\* profiles is not read after line 135.
Login ==
    /\ pc = "login"
    /\ \E ok \in BOOLEAN :
          IF ok
          THEN /\ max_to_send' = Budget(Len(profiles_to_contact),
                                        get_quota_status.daily_remaining)
               /\ i' = 1
               /\ pc' = "loop"
               /\ profiles' = <<>>
               /\ UNCHANGED <<profiles_to_contact, sent_count,
                              already_connected_count, failed_count, can_send,
                              reason, suggestion, attemptVars, slept, visited,
                              exit>>
          ELSE RunReset /\ exit' = "returned"
    /\ UNCHANGED <<clock, connections, inputVars, clicks, unclean, apiVars>>

\* A slip: the quota is checked before the loop only.
LoopHead_unchecked ==
    /\ pc = "loop"
    /\ pc' = IF i > max_to_send THEN "summary" ELSE "navigate"
    /\ slept' = <<>>
    /\ UNCHANGED <<clock, connections, inputVars, profiles, profiles_to_contact,
                   max_to_send, i, sent_count, already_connected_count,
                   failed_count, can_send, reason, suggestion, attemptVars,
                   visited, clicks, unclean, exit, apiVars>>

\* Lines 195-210: the next profile of profiles_to_contact[:max_to_send], and
\* the quota check before its request.
LoopHead ==
    /\ pc = "loop"
    /\ IF i > max_to_send
       THEN /\ pc' = "summary"
            /\ UNCHANGED <<can_send, reason>>
       ELSE /\ can_send' = can_send_request[1]
            /\ reason' = can_send_request[2]
            /\ pc' = IF can_send_request[1] THEN "navigate" ELSE "summary"
    /\ slept' = <<>>
    /\ UNCHANGED <<clock, connections, inputVars, profiles, profiles_to_contact,
                   max_to_send, i, sent_count, already_connected_count,
                   failed_count, suggestion, attemptVars, visited, clicks,
                   unclean, exit, apiVars>>

\* Lines 212-218: navigate_to_profile; driver.get raising gives False.
Navigate ==
    /\ pc = "navigate"
    /\ visited' = Append(visited, Current)
    /\ \E ok \in BOOLEAN :
          IF ok
          THEN pc' = "inspect" /\ result' = result
          ELSE /\ pc' = "record"
               /\ result' = [status |-> "failed", message |-> "Navigation failed"]
    /\ UNCHANGED <<clock, connections, inputVars, profiles, profiles_to_contact,
                   max_to_send, i, sent_count, already_connected_count,
                   failed_count, can_send, reason, suggestion, located, clicked,
                   indicator,
                   answers, slept, clicks, unclean, exit, apiVars>>

\* Lines 220-226: is_already_connected on what the driver finds.  The page
\* that is then handed to send_connection_with_verification is any page.
Inspect ==
    /\ pc = "inspect"
    /\ \E found \in Indicators \cup {NONE} :
          /\ indicator' = found
          /\ IF is_already_connected(found)
             THEN /\ pc' = "record"
                  /\ result' = [status |-> "already_connected", message |-> NONE]
                  /\ answers' = answers
             ELSE /\ pc' = "send"
                  /\ result' = result
                  /\ \E d \in DriverAnswers : answers' = Consulted(d)
    /\ UNCHANGED <<clock, connections, inputVars, profiles, profiles_to_contact,
                   max_to_send, i, sent_count, already_connected_count,
                   failed_count, can_send, reason, suggestion, located, clicked,
                   slept,
                   visited, clicks, unclean, exit, apiVars>>

\* Lines 228-230: send_connection_with_verification.  An exception that
\* leaves it ends main (lines 297-301).
Send ==
    /\ pc = "send"
    /\ LET r == send_connection_with_verification(answers)
       IN IF r.raised
          THEN /\ RunReset
               /\ unclean' = TRUE
               /\ clicks' = NoClicks
               /\ exit' = "fatal: WebDriverException"
          ELSE /\ located' = r.located
               /\ clicked' = r.clicked
               /\ result' = [status |-> IF r.success THEN "success"
                                        ELSE "failed",
                             message |-> r.message]
               /\ answers' = NoAnswers
               /\ pc' = "record"
               /\ clicks' = IF r.clicked /\ ~unclean
                            THEN [clicks EXCEPT ![Current] = Min(2, @ + 1)]
                            ELSE clicks
               /\ UNCHANGED <<profiles, profiles_to_contact, max_to_send, i,
                              sent_count, already_connected_count,
                              failed_count, can_send, reason, suggestion,
                              indicator, slept, visited, unclean, exit>>
    /\ UNCHANGED <<clock, connections, inputVars, apiVars>>

\* A slip: mark_as_sent called without its error_message argument.
ErrorMessage_none(res) == NONE

\* Lines 216, 223, 234 and 247: the error_message main hands to mark_as_sent.
ErrorMessage(res) == IF res.status = "failed" THEN res.message ELSE NONE

\* A slip: the break is taken after the last profile of the budget too.
Sleeps_break_at_end(res, sent) ==
    IF res.status = "success"
    THEN IF sent % PAUSE_EVERY_N = 0
         THEN <<"request_delay", "break">>
         ELSE <<"request_delay">>
    ELSE IF res.message = "Navigation failed"
    THEN <<>>
    ELSE <<"action_delay">>

\* The random_sleep calls that follow the mark_as_sent of an outcome.
Sleeps(res, sent) ==
    IF res.status = "success"
    THEN IF sent % PAUSE_EVERY_N = 0 /\ i < max_to_send
         THEN <<"request_delay", "break">>
         ELSE <<"request_delay">>
    ELSE IF res.message = "Navigation failed"
    THEN <<>>
    ELSE <<"action_delay">>

\* Lines 216-218, 223-226 and 232-249: the outcome is written to the ledger
\* and counted.  An sqlite3 error other than IntegrityError leaves
\* mark_as_sent, and main.
Record ==
    /\ pc = "record"
    /\ \E store \in {"ok", "error"} :
          LET err == ErrorMessage(result)
              w == cursor_execute(mark_as_sent(Current, MetaOf(Current),
                                               result.status, err), store)
          IN
          IF ~w.raised
          THEN LET sent == Counted(sent_count, result.status, "success")
               IN /\ connections' = w.rows
                  /\ first' = IF first[Current] = NoRow
                              THEN [first EXCEPT ![Current] =
                                       Row(Current, MetaOf(Current), clock,
                                           result.status, err)]
                              ELSE first
                  /\ sent_count' = sent
                  /\ already_connected_count' =
                        Counted(already_connected_count, result.status,
                                "already_connected")
                  /\ failed_count' = Counted(failed_count, result.status, "failed")
                  /\ slept' = Sleeps(result, sent)
                  /\ i' = i + 1
                  /\ pc' = "loop"
                  /\ located' = FALSE
                  /\ clicked' = FALSE
                  /\ result' = NoResult
                  /\ indicator' = NONE
                  /\ UNCHANGED <<profiles, profiles_to_contact, max_to_send,
                                 can_send, reason, suggestion, visited,
                                 unclean, clicks, answers, exit>>
          ELSE /\ RunReset
               /\ unclean' = TRUE
               /\ clicks' = NoClicks
               /\ exit' = "fatal: sqlite3.Error"
               /\ UNCHANGED <<connections, first>>
    /\ UNCHANGED <<clock, inputVars, ret>>

\* Lines 251-270: the summary and the quota status are printed.  What is
\* left of main reads none of its locals.
Summarise ==
    /\ pc = "summary"
    /\ pc' = "export"
    /\ LocalsReset
    /\ UNCHANGED <<clock, connections, inputVars, clicks, unclean, exit, apiVars>>

\* A slip: the ledger is cleared once it is exported.
Finish_clear_all ==
    /\ pc = "export"
    /\ RunReset
    /\ exit' = "returned"
    /\ connections' = <<>>
    /\ UNCHANGED <<clock, inputVars, clicks, unclean, apiVars>>

\* Lines 272-288: export_to_csv(config.CSV_OUTPUT), then main returns.
Finish ==
    /\ pc = "export"
    /\ RunReset
    /\ exit' = "returned"
    /\ UNCHANGED <<clock, connections, inputVars, clicks, unclean, apiVars>>

\* Lines 294-296: Ctrl+C ends the process wherever main is.
Interrupt ==
    /\ pc # "idle"
    /\ RunReset
    /\ unclean' = (unclean \/ pc \in {"inspect", "send", "record"})
    /\ clicks' = IF unclean' THEN NoClicks ELSE clicks
    /\ exit' = "interrupted"
    /\ UNCHANGED <<clock, connections, inputVars, apiVars>>

Next ==
    \/ Tick
    \/ StartRun
    \/ Return
    \/ Login
    \/ LoopHead
    \/ Navigate
    \/ Inspect
    \/ Send
    \/ Record
    \/ Summarise
    \/ Finish
    \/ Interrupt

Spec == Init /\ [][Next]_vars

SpecThree == InitThree /\ [][Next]_vars

SpecPacing == InitPacing /\ [][Next]_vars

\* ------------------------------------------------------------ direct calls
\* The public methods of ConnectionTracker and SafetyManager, called with any
\* arguments, outside a run.
Call(op, arg, value) == [op |-> op, arg |-> arg, value |-> value, raised |-> FALSE]

ApiFrame == UNCHANGED <<clock, inputVars, runVars, attemptVars, slept, visited,
                        clicks, unclean, exit>>

ApiMarkAsSent ==
    /\ \E id \in FewTargets, meta \in Metas, status \in Statuses :
       \E err \in IF status = "failed" THEN {NONE, "Navigation failed"}
                  ELSE {NONE} :
          LET w == mark_as_sent(id, meta, status, err)
          IN /\ connections' = w.rows
             /\ ret' = [Call("mark_as_sent", <<id, status>>, NONE)
                           EXCEPT !.raised = w.raised]
             /\ first' = IF first[id] = NoRow
                         THEN [first EXCEPT ![id] = Row(id, meta, clock, status, err)]
                         ELSE first
    /\ ApiFrame

ApiAlreadyContacted ==
    /\ \E id \in FewTargets :
          ret' = Call("already_contacted", id, already_contacted(id))
    /\ UNCHANGED <<connections, first>>
    /\ ApiFrame

ApiGetAll ==
    /\ \E p \in get_all_sent_connections :
          ret' = Call("get_all_sent_connections", NONE,
                      [k \in 1 .. Len(p) |-> connections[p[k]]])
    /\ UNCHANGED <<connections, first>>
    /\ ApiFrame

ApiGetStatistics ==
    /\ ret' = Call("get_statistics", NONE, get_statistics)
    /\ UNCHANGED <<connections, first>>
    /\ ApiFrame

\* export_to_csv writes no file when the table is empty.
ApiExport ==
    /\ \E p \in get_all_sent_connections :
          ret' = Call("export_to_csv", NONE,
                      IF connections = <<>> THEN NONE
                      ELSE [k \in 1 .. Len(p) |-> CsvRow(connections[p[k]])])
    /\ UNCHANGED <<connections, first>>
    /\ ApiFrame

\* DELETE FROM connections
ApiClearAll ==
    /\ connections' = <<>>
    /\ first' = NoFirst
    /\ ret' = Call("clear_all", NONE, NONE)
    /\ ApiFrame

ApiCanSend ==
    /\ ret' = Call("can_send_request", NONE, can_send_request)
    /\ UNCHANGED <<connections, first>>
    /\ ApiFrame

ApiQuotaStatus ==
    /\ ret' = Call("get_quota_status", NONE, get_quota_status)
    /\ UNCHANGED <<connections, first>>
    /\ ApiFrame

\* The machine's timezone is any of UtcOffsets.
ApiSuggest ==
    /\ \E utc_offset \in UtcOffsets :
          ret' = Call("suggest_next_run_time", utc_offset,
                      suggest_next_run_time(utc_offset))
    /\ UNCHANGED <<connections, first>>
    /\ ApiFrame

NextLedger ==
    \/ Tick
    \/ ApiMarkAsSent
    \/ ApiAlreadyContacted
    \/ ApiGetAll
    \/ ApiGetStatistics
    \/ ApiExport
    \/ ApiClearAll
    \/ ApiCanSend
    \/ ApiQuotaStatus
    \/ ApiSuggest

SpecLedger == InitLedger /\ [][NextLedger]_vars

\* ------------------------------------------------------------ utils.py, data_loader.py
\* A profile URL is a sequence of tokens: a head, "/", and a tail of the
\* characters "a", "/" and "?".  "https://www.linkedin.com/in" is the head of
\* a profile URL, "www.linkedin.com/in" that head without its scheme.  The
\* empty sequence is a missing URL (None or '').
Heads == {"https://www.linkedin.com/in", "www.linkedin.com/in"}

RECURSIVE Tails(_)
Tails(n) ==
    IF n = 0 THEN {<<>>}
    ELSE Tails(n - 1) \cup {Append(t, c) : t \in Tails(n - 1),
                                         c \in {"a", "/", "?"}}

Urls == {<<>>} \cup {<<h, "/">> \o t : h \in Heads, t \in Tails(MaxUrlLen)}

\* The records of a scraped file; job_title tells them apart.
JobLists ==
    UNION {[1 .. n -> Urls] : n \in 0 .. MaxJobs}

Job(url, title) == [poster_profile_url |-> url, job_title |-> title]

JobsOf(urls) == [k \in 1 .. Len(urls) |-> Job(urls[k], k)]

\* url.split('?')[0]
RECURSIVE BeforeQuery(_)
BeforeQuery(url) ==
    IF url = <<>> \/ Head(url) = "?" THEN <<>>
    ELSE <<Head(url)>> \o BeforeQuery(Tail(url))

\* url.rstrip('/')
RECURSIVE RStrip(_)
RStrip(url) ==
    IF url # <<>> /\ url[Len(url)] = "/"
    THEN RStrip(SubSeq(url, 1, Len(url) - 1))
    ELSE url

\* url.split('/')[-1]
RECURSIVE LastPart(_)
LastPart(url) ==
    IF url = <<>> \/ url[Len(url)] = "/" THEN <<>>
    ELSE Append(LastPart(SubSeq(url, 1, Len(url) - 1)), url[Len(url)])

\* 'linkedin.com/in/' in url
InLinkedIn(url) ==
    \E k \in 1 .. (Len(url) - 1) : url[k] \in Heads /\ url[k + 1] = "/"

normalize_profile_url(url) ==
    IF url = <<>> THEN <<>>
    ELSE LET clean_url == BeforeQuery(url)
         IN IF clean_url # <<>> /\ clean_url[Len(clean_url)] = "/"
            THEN clean_url
            ELSE Append(clean_url, "/")

extract_profile_id(url) ==
    IF url = <<>> THEN <<>>
    ELSE IF InLinkedIn(RStrip(url)) THEN LastPart(RStrip(url)) ELSE <<>>

\* The URL contains linkedin.com/in/ and starts with http.
validate_profile_url(url) ==
    /\ url # <<>>
    /\ InLinkedIn(url)
    /\ Head(url) = "https://www.linkedin.com/in"

filter_jobs_with_posters(jobs) ==
    SelectSeq(jobs, LAMBDA job : validate_profile_url(job.poster_profile_url))

\* A slip: a later record of a profile replaces the one kept.
RECURSIVE deduplicate_profiles_last(_)
deduplicate_profiles_last(jobs) ==
    IF jobs = <<>> THEN <<>>
    ELSE LET job == Head(jobs)
             normalized_url == normalize_profile_url(job.poster_profile_url)
             profile_id == extract_profile_id(normalized_url)
             rest == deduplicate_profiles_last(Tail(jobs))
         IN IF profile_id = <<>>
               \/ \E k \in 1 .. Len(rest) : rest[k].poster_profile_id = profile_id
            THEN rest
            ELSE <<[job EXCEPT !.poster_profile_url = normalized_url]
                      @@ [poster_profile_id |-> profile_id]>> \o rest

\* The loop of deduplicate_profiles from the record jobs[k] on.
RECURSIVE unique_jobs(_, _)
unique_jobs(jobs, seen_profile_ids) ==
    IF jobs = <<>> THEN <<>>
    ELSE LET job == Head(jobs)
             normalized_url == normalize_profile_url(job.poster_profile_url)
             profile_id == extract_profile_id(normalized_url)
         IN IF job.poster_profile_url # <<>> /\ profile_id # <<>>
               /\ profile_id \notin seen_profile_ids
            THEN <<[job EXCEPT !.poster_profile_url = normalized_url]
                      @@ [poster_profile_id |-> profile_id]>>
                 \o unique_jobs(Tail(jobs), seen_profile_ids \cup {profile_id})
            ELSE unique_jobs(Tail(jobs), seen_profile_ids)

deduplicate_profiles(jobs) == unique_jobs(jobs, {})

load_and_prepare_data(jobs) ==
    deduplicate_profiles(filter_jobs_with_posters(jobs))

\* One scraped file, with any records.
InitLoader == \E urls \in JobLists : InitWith({JobsOf(urls)}, {DAILY_LIMIT})

\* Lines 97-106 of main: the file is loaded and prepared.
LoadFile ==
    /\ pc = "idle"
    /\ \E jobs \in files : profiles' = load_and_prepare_data(jobs)
    /\ pc' = "loaded"
    /\ exit' = NONE
    /\ UNCHANGED <<clock, connections, inputVars, profiles_to_contact,
                   max_to_send, i, sent_count, already_connected_count,
                   failed_count, can_send, reason, suggestion, attemptVars,
                   slept, visited, clicks, unclean, apiVars>>

NextLoader == LoadFile

SpecLoader == InitLoader /\ [][NextLoader]_vars

\* ------------------------------------------------------------ claims
\* The success rows of the ledger with lo <= sent_at <= hi.
SuccessesIn(lo, hi) ==
    LET Where(r) == r.status = "success" /\ lo <= r.sent_at /\ r.sent_at <= hi
    IN CountRows(connections, Where)

DayOf(t) == t \div TicksPerDay

\* C1, as stated: after any sequence of runs with a fixed daily limit, for
\* every instant t the success entries with sent_at in the 24 hours that end
\* at t never exceed the daily limit.
C1_Trailing24h ==
    sm_daily_limit >= 1 =>
        \A t \in Times : SuccessesIn(t - TicksPerDay + 1, t) <= sm_daily_limit

\* C1, amended: after any sequence of runs with a fixed daily limit >= 0, for
\* every local calendar day the success entries with sent_at on that day never
\* exceed the daily limit the Safety Manager enforces.
C1_PerCalendarDay ==
    daily_limit >= 0 =>
        \A t \in Times :
            SuccessesIn(DayOf(t) * TicksPerDay, (DayOf(t) + 1) * TicksPerDay - 1)
                <= sm_daily_limit

\* Two requests were sent less than a day apart, on either side of a local
\* midnight, under a daily limit of 1.
C1_Witness ==
    /\ sm_daily_limit = 1
    /\ \E a, b \in 1 .. Len(connections) :
          /\ connections[a].status = "success"
          /\ connections[b].status = "success"
          /\ connections[b].sent_at - connections[a].sent_at \in 1 .. (TicksPerDay - 1)
          /\ DayOf(connections[a].sent_at) < DayOf(connections[b].sent_at)

\* C2: after any sequence of runs with a fixed weekly limit, for every
\* instant t the success entries with sent_at in the 7 days that end at t
\* never exceed the weekly limit.  The instants are those the clock reads: a
\* window that ends between two of them holds no row that the window ending
\* at the earlier one lacks.
C2_Trailing7Days ==
    \A t \in Times : SuccessesIn(t - Week, t) <= sm_weekly_limit

\* The weekly window has rolled: a third request went out once the oldest
\* one left the window, and the window is full again.
C2_Witness ==
    /\ SuccessesIn(0, Week + 1) = WEEKLY_LIMIT + 1
    /\ get_requests_this_week = sm_weekly_limit
    /\ clock >= Week

\* C3: over runs on one ledger that each complete or are interrupted between
\* two targets, Connect is clicked at most once per profile, no profile has
\* two ledger rows, and every profile of the batch without a row is kept by
\* the filter of the next run.
C3_NoRepeatNoLoss ==
    /\ ~unclean => \A t \in Targets : clicks[t] <= 1
    /\ \A a, b \in 1 .. Len(connections) :
          connections[a].profile_id = connections[b].profile_id => a = b
    /\ pc = "login" =>
          \A t \in Range(profiles) :
              t \notin Ids(connections) => t \in Range(profiles_to_contact)

\* A later run has filtered a batch that holds a profile whose Connect was
\* clicked in an earlier run, next to a profile that has no row yet.
C3_Witness ==
    /\ ~unclean
    /\ pc = "login"
    /\ \E t, u \in Range(profiles) :
          /\ clicks[t] = 1
          /\ t \in Ids(connections)
          /\ u \notin Ids(connections)
          /\ u \in Range(profiles_to_contact)

\* C4: in every ledger state can_send_request answers False exactly when
\* the usage of the day has reached the daily limit or the usage of the week
\* has reached the weekly limit; usage equal to a limit blocks, and usage one
\* below both limits allows.
C4_BlockedIffAtLimit ==
    LET q == get_quota_status
    IN /\ can_send_request[1] =
             ~(q.daily_used >= q.daily_limit \/ q.weekly_used >= q.weekly_limit)
       /\ (q.daily_used = q.daily_limit \/ q.weekly_used = q.weekly_limit)
             => ~can_send_request[1]
       /\ (q.daily_used = q.daily_limit - 1 /\ q.weekly_used = q.weekly_limit - 1)
             => can_send_request[1]

\* A run was refused with the usage of the day exactly at a positive limit.
C4_Witness ==
    /\ pc = "refused"
    /\ ~can_send
    /\ reason = "Daily limit reached"
    /\ sm_daily_limit >= 1
    /\ get_requests_today = sm_daily_limit
    /\ ~can_send_request[1]

RowsOf(profile_id) ==
    {k \in 1 .. Len(connections) : connections[k].profile_id = profile_id}

\* C5: after mark_as_sent was called more than once for a profile_id, with
\* any statuses and metadata, the ledger holds exactly one row for the id and
\* its fields are those of the first call; no call raises to its caller.
C5_FirstWriteWins ==
    /\ \A id \in Targets :
          first[id] # NoRow =>
             /\ Cardinality(RowsOf(id)) = 1
             /\ \A k \in RowsOf(id) : connections[k] = first[id]
    /\ ret.op = "mark_as_sent" => ~ret.raised

\* mark_as_sent has just returned from a second call for an id, made later
\* than the first and with another status.
C5_Witness ==
    /\ ret.op = "mark_as_sent"
    /\ first[ret.arg[1]] # NoRow
    /\ first[ret.arg[1]].status # ret.arg[2]
    /\ first[ret.arg[1]].sent_at < clock
    /\ ~ret.raised

\* The rows of the ledger stay where and what they are.
RowsKept ==
    /\ Len(connections') >= Len(connections)
    /\ \A k \in 1 .. Len(connections) : connections'[k] = connections[k]

\* C6: in every reachable ledger state there is at most one row per
\* profile_id, and no step of mark_as_sent, already_contacted,
\* get_all_sent_connections, get_statistics, export_to_csv or the safety
\* manager's queries changes or removes a row: only clear_all does.
C6_OneRowNeverChanged ==
    /\ [](\A id \in Targets : Cardinality(RowsOf(id)) <= 1)
    /\ [][ApiClearAll \/ RowsKept]_vars

\* mark_as_sent was called for an id that has a row, with another status,
\* after history, statistics and export had their turn.
C6_Witness ==
    /\ ret.op = "mark_as_sent"
    /\ Len(connections) = Cardinality(FewTargets)
    /\ \E k \in RowsOf(ret.arg[1]) :
          /\ connections[k].status # ret.arg[2]
          /\ connections[k].sent_at < clock

\* C7: already_contacted(id) is true exactly when the ledger holds a row for
\* the id, whatever its status; a profile with a row (a failed one included)
\* is not among the profiles a run still has to process and is never
\* navigated to again.
C7_AnyStatusCounts ==
    /\ [](\A t \in Targets : already_contacted(t) <=> RowsOf(t) # {})
    /\ [](pc # "idle" =>
             \A k \in Max(i, 1) .. Len(profiles_to_contact) :
                 RowsOf(profiles_to_contact[k]) = {})
    /\ [][Len(visited') > Len(visited) =>
             RowsOf(visited'[Len(visited')]) = {}]_vars

\* A later run has filtered out a profile whose only row is a failed one.
C7_Witness ==
    /\ pc = "login"
    /\ \E t \in Range(profiles) :
          /\ t \notin Range(profiles_to_contact)
          /\ \E k \in RowsOf(t) : connections[k].status = "failed"

\* C8: when the ledger holds N rows and the deduplicated batch holds those N
\* ids and M new ones, the filter of the run keeps exactly the M new
\* profiles, in the order of the batch, and reports N as skipped.
C8_FilterKeepsNew ==
    (pc \in {"login", "nothing"} /\ Ids(connections) \subseteq Range(profiles)) =>
        LET New(t) == t \notin Ids(connections)
        IN /\ profiles_to_contact = SelectSeq(profiles, New)
           /\ Len(profiles_to_contact) = Len(profiles) - Len(connections)
           /\ skipped_reported = Len(connections)

\* A ledger with one row, for the second profile of a batch of three: the
\* two new profiles are kept in batch order.
C8_Witness ==
    /\ pc = "login"
    /\ Len(profiles) = 3
    /\ Ids(connections) = {profiles[2]}
    /\ profiles_to_contact = <<profiles[1], profiles[3]>>
    /\ skipped_reported = 1

\* C9 (Scenario A): with a daily limit of 2, an empty ledger and three
\* retained profiles whose first two requests succeed, the third profile is
\* never started (no navigation, no row) and the summary of the run reports
\* sent = 2 and skipped_by_quota = 1.
C9_ScenarioA ==
    (/\ pc = "summary"
     /\ sm_daily_limit = 2
     /\ Len(profiles_to_contact) = 3
     /\ Len(connections) = 2
     /\ sent_count = 2) =>
        /\ profiles_to_contact[3] \notin Range(visited)
        /\ RowsOf(profiles_to_contact[3]) = {}
        /\ RunSummary.sent = 2
        /\ "skipped_by_quota" \in DOMAIN RunSummary
        /\ RunSummary.skipped_by_quota = 1

\* C10 (Scenario B): when the inspection after navigation reports an
\* existing or pending relationship, the attempt ends as already_connected
\* without Connect being located or clicked, and the row written for the
\* profile has status already_connected.
C10_ScenarioB ==
    /\ []((pc \in {"send", "record"} /\ indicator # NONE) =>
             /\ pc = "record"
             /\ result.status = "already_connected"
             /\ ~located
             /\ ~clicked)
    /\ [][(pc = "record" /\ indicator # NONE /\ pc' = "loop") =>
             /\ connections' =
                   Append(connections,
                          Row(Current, MetaOf(Current), clock,
                              "already_connected", NONE))
             /\ already_connected_count' = already_connected_count + 1
             /\ clicks' = clicks]_vars

\* A run has recorded a profile as already_connected after the inspection
\* reported a pending request; Connect was never clicked for it.
C10_Witness ==
    /\ pc = "loop"
    /\ ~unclean
    /\ already_connected_count = 1
    /\ connections # <<>>
    /\ connections[Len(connections)].status = "already_connected"
    /\ connections[Len(connections)].profile_id = visited[Len(visited)]
    /\ clicks[visited[Len(visited)]] = 0

\* The step of Record that stores the row of the current profile.
Recorded(status) ==
    /\ pc = "record"
    /\ pc' = "loop"
    /\ Len(connections') = Len(connections) + 1
    /\ connections'[Len(connections')].profile_id = Current
    /\ connections'[Len(connections')].status = status

\* C11 (Scenario C): when Connect was clicked, the wait for the Send button
\* timed out and a Pending button was then seen, the attempt ends as
\* Completed/Unverified, not Completed/Verified, and the row written has
\* status success.
C11_ScenarioC ==
    /\ [][(Send /\ answers.click = "ok" /\ answers.modal = "timeout"
                /\ answers.pending = "found") =>
             /\ pc' = "record"
             /\ result'.status = "success"
             /\ Outcome(result') = "Completed/Unverified"]_vars
    /\ [][(pc = "record" /\ result.status = "success" /\ pc' = "loop") =>
             Recorded("success")]_vars

\* C12: when Connect was clicked and the Send button showed up within the
\* wait and was clicked, the attempt ends as Completed/Verified with outcome
\* success, whatever the later look for the Pending button gives.
C12_ConfirmedIsVerified ==
    [][(Send /\ answers.click = "ok" /\ answers.modal = "send"
             /\ answers.confirm = "ok") =>
          /\ pc' = "record"
          /\ result'.status = "success"
          /\ Outcome(result') = "Completed/Verified"]_vars

\* The earliest success row within the 7 days that get_requests_this_week
\* counts.
OldestInWeek ==
    LET W == {connections[k].sent_at : k \in
                 {j \in 1 .. Len(connections) :
                     /\ connections[j].sent_at >= week_ago
                     /\ connections[j].status = "success"}}
    IN CHOOSE t \in W : \A u \in W : t <= u

\* C13 (Scenario D): when the weekly limit is reached and the daily limit is
\* not, suggest_next_run_time names exactly oldest.sent_at + 7 days, oldest
\* being the earliest success row inside the 7-day window.
C13_WeeklyEstimate ==
    [][(ApiSuggest /\ get_requests_this_week >= sm_weekly_limit
                   /\ get_requests_today < sm_daily_limit) =>
          /\ ret'.value.kind = "weekly"
          /\ clock + ret'.value.until = OldestInWeek + Week]_vars

\* C14: suggest_next_run_time names the next local midnight whenever the
\* daily limit is reached, the weekly limit being reached or not, and answers
\* that a run can start now exactly when both usages are below their limits.
C14_DailyEstimateAndNow ==
    [][(ret'.op = "suggest_next_run_time" /\ ApiSuggest) =>
          /\ get_requests_today >= sm_daily_limit =>
                /\ ret'.value.kind = "daily"
                /\ clock + ret'.value.until = (DayOf(clock) + 1) * TicksPerDay
          /\ ret'.value.kind = "now" <=>
                (get_requests_today < sm_daily_limit
                 /\ get_requests_this_week < sm_weekly_limit)]_vars

\* suggest_next_run_time has named the coming midnight, in the afternoon of a
\* day on which the daily and the weekly limit are both reached.
C14_Witness ==
    /\ ret.op = "suggest_next_run_time"
    /\ ret.value.kind = "daily"
    /\ ret.value.until = 1
    /\ clock % TicksPerDay = TicksPerDay - 1
    /\ get_requests_today >= sm_daily_limit
    /\ get_requests_this_week >= sm_weekly_limit

C16_OnlySuccessCounts ==
    /\ [](/\ get_requests_today = SuccessesIn(today_start, Week + 1)
          /\ get_requests_this_week = SuccessesIn(week_ago, Week + 1))
    /\ [][(/\ pc = "record"
           /\ result.status \in {"failed", "already_connected"}
           /\ Len(connections') = Len(connections) + 1) =>
             /\ Recorded(result.status)
             /\ can_send_request' = can_send_request
             /\ get_quota_status' = get_quota_status]_vars

\* A run has written a failed and an already_connected row, or two of a
\* kind, and the quota is untouched.
C16_Witness ==
    /\ pc = "loop"
    /\ Len(connections) = 2
    /\ failed_count + already_connected_count = 2
    /\ get_quota_status.daily_used = 0
    /\ get_quota_status.weekly_used = 0
    /\ sm_daily_limit >= 1
    /\ can_send_request[1]

\* C17: a driver exception raised while a profile is processed (locating
\* Connect, the click, the wait for the Send button, its click or the
\* verification after sending) ends the attempt as Failed, the failure is
\* written to the ledger, and the run goes on with the next profile.
C17_ExceptionsBecomeFailed ==
    /\ [][(Send /\ "error" \in {answers.find, answers.click, answers.modal,
                                 answers.confirm, answers.verify}) =>
             /\ pc' = "record"
             /\ Outcome(result') = "Failed"]_vars
    /\ [][(pc = "record" /\ result.status = "failed" /\ pc' = "loop") =>
             /\ Recorded("failed")
             /\ i' = i + 1]_vars

\* C18: when the navigation to a profile fails the attempt is Failed at once:
\* no inspection and no Connect for the profile, a row with status failed and
\* the navigation error message is written, and the run goes on with the
\* next profile.
C18_NavigationFailure ==
    /\ [][(pc = "navigate" /\ pc' = "record") =>
             /\ result' = [status |-> "failed", message |-> "Navigation failed"]
             /\ indicator' = NONE
             /\ answers' = NoAnswers
             /\ ~located' /\ ~clicked'
             /\ clicks' = clicks]_vars
    /\ [][(/\ pc = "record"
           /\ result.message = "Navigation failed"
           /\ connections' # connections) =>
             /\ connections' =
                   Append(connections,
                          Row(Current, MetaOf(Current), clock, "failed",
                              "Navigation failed"))
             /\ indicator = NONE /\ ~located /\ ~clicked
             /\ clicks' = clicks
             /\ failed_count' = failed_count + 1
             /\ pc' = "loop"
             /\ i' = i + 1]_vars

\* After a failed navigation to the first profile, recorded as such, the run
\* is about to navigate to the second.
C18_Witness ==
    /\ pc = "navigate"
    /\ i = 2
    /\ failed_count = 1
    /\ visited = <<profiles_to_contact[1]>>
    /\ connections # <<>>
    /\ connections[Len(connections)] =
          Row(profiles_to_contact[1], MetaOf(profiles_to_contact[1]),
              connections[Len(connections)].sent_at, "failed",
              "Navigation failed")
    /\ clicks[profiles_to_contact[1]] = 0

\* The step of Record that writes the failed row of the current profile, with
\* the message of the attempt; the usage of the quotas stays as it was.
RecordedFailure ==
    /\ connections' =
          Append(connections,
                 Row(Current, MetaOf(Current), clock, "failed", result.message))
    /\ result.message \notin {NONE, ""}
    /\ get_quota_status'.daily_used = get_quota_status.daily_used
    /\ get_quota_status'.weekly_used = get_quota_status.weekly_used

\* C19: when Connect was clicked, the wait for the Send button timed out and
\* no Pending button was seen, the attempt ends as Failed (ambiguous
\* timeout); the row has status failed and a non-empty error message, and it
\* does not count toward a quota.
C19_AmbiguousTimeout ==
    /\ [][(Send /\ answers.click = "ok" /\ answers.modal = "timeout"
                /\ answers.pending = "absent") =>
             /\ pc' = "record"
             /\ clicked'
             /\ result' = [status |-> "failed",
                           message |-> "Modal timeout - unclear if request sent"]]_vars
    /\ [][(/\ pc = "record"
           /\ result.message = "Modal timeout - unclear if request sent"
           /\ connections' # connections) => RecordedFailure]_vars

\* The run has written the failed row of a profile whose Connect was clicked
\* and whose modal never came; no request counts as sent.
C19_Witness ==
    /\ pc = "loop"
    /\ connections # <<>>
    /\ connections[Len(connections)].status = "failed"
    /\ connections[Len(connections)].error_message =
          "Modal timeout - unclear if request sent"
    /\ clicks[connections[Len(connections)].profile_id] = 1
    /\ failed_count = 1
    /\ get_quota_status.daily_used = 0

\* C20: when no Connect control is found by any strategy, nothing is clicked,
\* the attempt ends as Failed (no action control) and a row with status
\* failed is written.
C20_NoConnectButton ==
    /\ [][(Send /\ answers.find = "none") =>
             /\ pc' = "record"
             /\ ~located' /\ ~clicked'
             /\ clicks' = clicks
             /\ result' = [status |-> "failed",
                           message |-> "Connect button not found"]]_vars
    /\ [][(/\ pc = "record"
           /\ result.message = "Connect button not found"
           /\ connections' # connections) =>
             /\ RecordedFailure
             /\ ~clicked
             /\ clicks' = clicks]_vars

\* The run has written the failed row of a profile on whose page no Connect
\* control was found; nothing was clicked for it.
C20_Witness ==
    /\ pc = "loop"
    /\ ~unclean
    /\ connections # <<>>
    /\ connections[Len(connections)].status = "failed"
    /\ connections[Len(connections)].error_message = "Connect button not found"
    /\ clicks[connections[Len(connections)].profile_id] = 0
    /\ failed_count = 1

\* C21: within one run every started target passes through navigation,
\* inspection, action and recording once and ends in one terminal outcome, for
\* which one ledger record call is made: no profile is navigated to twice,
\* the profiles navigated to are the outcomes counted plus the attempt under
\* way, every call of send_connection_with_verification hands main an
\* outcome to record, and recording writes one row for the current profile
\* and moves to the next.
C21_OnePassOneOutcome ==
    /\ [](pc # "idle" =>
            /\ \A k, l \in 1 .. Len(visited) : visited[k] = visited[l] => k = l
            /\ Len(visited) = RunSummary.attempted
                              + (IF pc \in {"inspect", "send", "record"}
                                 THEN 1 ELSE 0))
    /\ [][Send => pc' = "record" /\ result'.status \in Statuses]_vars
    /\ [][pc = "record" /\ pc' = "loop" =>
            /\ Len(connections') = Len(connections) + 1
            /\ connections'[Len(connections')].profile_id = Current
            /\ connections'[Len(connections')].status = result.status
            /\ i' = i + 1]_vars

\* C22: can_send_request is evaluated right before every attempt of the loop:
\* a navigation is entered only by the step of the loop head, on a positive
\* answer of that step.  When the answer is negative the loop is left for
\* the summary with the reason kept; from there no profile is navigated to
\* and no row is written, and unless the operator interrupts, the summary is
\* followed by the export and the export by the return of main.
C22_BlockedStopsLoop ==
    /\ [][pc' = "navigate" /\ pc # "navigate" =>
            pc = "loop" /\ can_send_request[1]]_vars
    /\ [][LoopHead /\ i <= max_to_send /\ ~can_send_request[1] =>
            /\ pc' = "summary"
            /\ ~can_send'
            /\ reason' = can_send_request[2]]_vars
    /\ [][(pc \in {"summary", "export"}) =>
            /\ connections' = connections
            /\ visited' \in {visited, <<>>}
            /\ clicks' \in {clicks, NoClicks}
            /\ pc' \in {"summary", "export", "idle"}]_vars
    /\ [][pc = "summary" /\ exit' # "interrupted" =>
            pc' \in {"summary", "export"}]_vars
    /\ [][pc = "export" /\ pc' # "export" /\ exit' # "interrupted" =>
            exit' = "returned"]_vars

\* A run of two retained profiles that the weekly limit stops after the
\* first, at its summary.
C22_Witness ==
    /\ pc = "summary"
    /\ ~can_send
    /\ reason = "Weekly limit reached"
    /\ i = 2
    /\ max_to_send = 2
    /\ Len(visited) = 1

\* C23: when the store fails to write the entry of an outcome (an sqlite3
\* error other than the IntegrityError of a duplicate), the run aborts at
\* once: the recording step that leaves the table as it was ends main with
\* the fatal error, nothing is navigated to or written until another run is
\* started, and so a run never moves on past a profile that has no row.
C23_StoreFailureAborts ==
    /\ [][Record /\ connections' = connections =>
            /\ pc' = "idle"
            /\ exit' = "fatal: sqlite3.Error"
            /\ visited' = <<>>]_vars
    /\ [][exit = "fatal: sqlite3.Error" /\ pc = "idle" =>
            /\ connections' = connections
            /\ visited' = <<>>
            /\ clicks' = clicks]_vars
    /\ [](pc # "idle" =>
            \A k \in 1 .. (i - 1) : RowsOf(profiles_to_contact[k]) # {})

\* A run aborted by the store at its first outcome: the ledger is empty.
C23_Witness ==
    /\ exit = "fatal: sqlite3.Error"
    /\ pc = "idle"
    /\ connections = <<>>
    /\ unclean

\* C24: a negative daily limit supplied by the operator is not accepted as a
\* limit: starting a run with it ends the script with a fatal error before
\* any profile is processed, and no run is ever under way with a negative
\* limit in its Safety Manager.
C24_NegativeLimitIsFatal ==
    /\ [][StartRun /\ daily_limit < 0 =>
            /\ pc' = "idle"
            /\ exit' \notin {NONE, "returned", "interrupted"}]_vars
    /\ [](pc # "idle" => get_quota_status.daily_limit >= 0)

\* C25: whenever a quota stops a run, at the check before the run or at a
\* check inside the loop, the reason and an estimate of the next eligible
\* time have been reported, and unless the operator interrupts, the run ends
\* by exporting the ledger.
C25_QuotaStopReported ==
    /\ []((pc \in {"refused", "summary"} /\ ~can_send) =>
            /\ reason \in {"Daily limit reached", "Weekly limit reached"}
            /\ suggestion # NoSuggestion)
    /\ [][(pc \in {"refused", "summary"}) /\ ~can_send
              /\ pc' \notin {"refused", "summary"} /\ exit' # "interrupted" =>
            pc' = "export"]_vars

\* The place of the row of profile_id in the table.
RowIndex(profile_id) ==
    CHOOSE k \in 1 .. Len(connections) : connections[k].profile_id = profile_id

\* C26: the entries of a run are written in the order in which its profiles
\* are processed.  The profiles navigated to are a prefix of the retained
\* batch; of two of them that have rows, the one processed first has the
\* earlier row and no later sent_at; and a navigation starts only when every
\* profile navigated to before has its row.
C26_WrittenInProcessingOrder ==
    /\ [](pc # "idle" =>
            /\ Len(visited) <= Len(profiles_to_contact)
            /\ \A k \in 1 .. Len(visited) : visited[k] = profiles_to_contact[k]
            /\ \A k, l \in 1 .. Len(visited) :
                  (k < l /\ RowsOf(visited[k]) # {} /\ RowsOf(visited[l]) # {}) =>
                     /\ RowIndex(visited[k]) < RowIndex(visited[l])
                     /\ connections[RowIndex(visited[k])].sent_at
                           <= connections[RowIndex(visited[l])].sent_at)
    /\ [][Len(visited') > Len(visited) =>
            \A k \in 1 .. Len(visited) : RowsOf(visited[k]) # {}]_vars

\* A run has written the rows of two profiles at different instants.
C26_Witness ==
    /\ pc = "loop"
    /\ Len(visited) = 2
    /\ RowsOf(visited[1]) # {}
    /\ RowsOf(visited[2]) # {}
    /\ connections[RowIndex(visited[1])].sent_at
          < connections[RowIndex(visited[2])].sent_at

\* The successes since an instant that the ledger held when the run began.
PriorSuccesses(since) ==
    LET Where(r) == /\ r.status = "success"
                    /\ r.sent_at >= since
                    /\ r.profile_id \notin Range(visited)
    IN CountRows(connections, Where)

\* Every row this run has written is of an instant not before since.
RunWithin(since) ==
    \A k \in 1 .. Len(connections) :
       connections[k].profile_id \in Range(visited) =>
          connections[k].sent_at >= since

\* C27: can_send_request and get_quota_status answer from the ledger as it is
\* at the call.  While the successes a run has written, sent_count of them,
\* are all of today (of the trailing week), daily_used (weekly_used) is the
\* count of the earlier successes of the window plus sent_count, and
\* can_send_request decides on these counts; the step that writes a success
\* raises both counts by one, the step that writes another outcome by none.
C27_FreshCounts ==
    /\ [](pc # "idle" =>
            /\ RunWithin(today_start) =>
                  get_quota_status.daily_used
                     = PriorSuccesses(today_start) + sent_count
            /\ RunWithin(week_ago) =>
                  get_quota_status.weekly_used
                     = PriorSuccesses(week_ago) + sent_count
            /\ (RunWithin(today_start) /\ RunWithin(week_ago)) =>
                  (can_send_request[1] <=>
                     /\ PriorSuccesses(today_start) + sent_count < sm_daily_limit
                     /\ PriorSuccesses(week_ago) + sent_count < sm_weekly_limit))
    /\ [][Record /\ pc' = "loop" =>
            LET n == IF result.status = "success" THEN 1 ELSE 0
            IN /\ get_quota_status'.daily_used = get_quota_status.daily_used + n
               /\ get_quota_status'.weekly_used
                     = get_quota_status.weekly_used + n]_vars

\* A run has written two successes on top of none: the next call of
\* get_quota_status answers two and two.
C27_Witness ==
    /\ pc = "loop"
    /\ sent_count = 2
    /\ PriorSuccesses(week_ago) = 0
    /\ get_quota_status.daily_used = 2
    /\ get_quota_status.weekly_used = 2
    /\ ~can_send_request[1]

\* rows holds each row of the table once, as written by Written, newest
\* sent_at first.
FullHistory(rows, Written(_)) ==
    /\ Len(rows) = Len(connections)
    /\ \A k \in 1 .. Len(connections) :
          Cardinality({j \in 1 .. Len(rows) : rows[j] = Written(connections[k])}) = 1
    /\ \A a, b \in 1 .. Len(rows) : a < b => rows[a].sent_at >= rows[b].sent_at

\* C28: in every state of the ledger, get_all_sent_connections returns each
\* row once, ordered by sent_at descending, and export_to_csv writes these
\* rows, each once, in that order, with the columns of a ledger entry (an
\* absent error_message as the empty string); of an empty ledger it writes
\* nothing.
C28_HistoryAndExport ==
    /\ [][ApiGetAll =>
            LET Same(r) == r IN FullHistory(ret'.value, Same)]_vars
    /\ [][ApiExport =>
            IF connections = <<>>
            THEN ret'.value = NONE
            ELSE /\ FullHistory(ret'.value, CsvRow)
                 /\ \A j \in 1 .. Len(ret'.value) :
                       /\ DOMAIN ret'.value[j]
                             = {"profile_id", "meta", "sent_at", "status",
                                "error_message"}
                       /\ ret'.value[j].error_message # NONE]_vars

\* The export of a ledger of two rows written at different instants: the
\* later row is written first.
C28_Witness ==
    /\ ret.op = "export_to_csv"
    /\ Len(connections) = 2
    /\ connections[1].sent_at < connections[2].sent_at
    /\ ret.value[1].profile_id = connections[2].profile_id
    /\ ret.value[2].profile_id = connections[1].profile_id

\* C29: a run only adds to the ledger.  Every step of a run, and of the time
\* between runs, keeps the rows there are, unchanged and in place; the ledger
\* changes only in the step that records an outcome; the steps in which main
\* asks the Safety Manager (can_send_request, get_quota_status,
\* suggest_next_run_time) leave it as it was.
C29_LedgerOnlyGrows ==
    /\ [][RowsKept]_vars
    /\ [][connections' # connections => pc = "record" /\ Record]_vars
    /\ [][StartRun \/ Login \/ LoopHead \/ Summarise =>
            connections' = connections]_vars

\* A second run has recorded an outcome: the row of the earlier run is there
\* as that run wrote it.
C29_Witness ==
    /\ pc = "summary"
    /\ Len(connections) = 2
    /\ Len(visited) = 1
    /\ connections[2].profile_id = visited[1]
    /\ connections[1] = first[connections[1].profile_id]

\* C30: within one run, whose batch load_and_prepare_data has deduplicated,
\* no profile is navigated to or acted on more than once: the profiles
\* navigated to are pairwise different, each navigation is to a profile not
\* navigated to before in the run, and inspection, request and recording
\* are for the profile navigated to last.
C30_NoTargetTwice ==
    /\ [](\A k, l \in 1 .. Len(visited) : visited[k] = visited[l] => k = l)
    /\ []((pc \in {"inspect", "send", "record"}) =>
            /\ Len(visited) = i
            /\ visited[i] = Current
            /\ \A k \in 1 .. (i - 1) : profiles_to_contact[k] # Current)
    /\ [][Len(visited') > Len(visited) =>
            /\ visited' = Append(visited, profiles_to_contact[i])
            /\ profiles_to_contact[i] \notin Range(visited)]_vars

\* The request to the second profile of a run is about to be made.
C30_Witness ==
    /\ pc = "send"
    /\ Len(visited) = 2
    /\ visited[1] # visited[2]
    /\ clicks[visited[1]] = 1

\* The profile id of a raw record.
IdOf(job) == extract_profile_id(normalize_profile_url(job.poster_profile_url))

\* C31: the prepared batch holds each profile id at most once.  Of the
\* records handed to deduplicate_profiles whose normalised URLs (query
\* string stripped, a trailing slash added) give the same profile id, the
\* first one is kept and no other; the records kept come in the order of the
\* input, with the normalised URL and the id.
C31_FirstOccurrenceKept ==
    pc = "loaded" =>
       \A raw \in files :
          LET jobs == filter_jobs_with_posters(raw)
              Kept(k) == \E n \in 1 .. Len(profiles) :
                            profiles[n].job_title = jobs[k].job_title
          IN /\ \A m, n \in 1 .. Len(profiles) :
                   /\ profiles[m].poster_profile_id = profiles[n].poster_profile_id
                         => m = n
                   /\ m < n => profiles[m].job_title < profiles[n].job_title
             /\ \A k \in 1 .. Len(jobs) :
                   Kept(k) <=>
                      /\ IdOf(jobs[k]) # <<>>
                      /\ \A l \in 1 .. (k - 1) : IdOf(jobs[l]) # IdOf(jobs[k])
             /\ \A n \in 1 .. Len(profiles) :
                   \E k \in 1 .. Len(jobs) :
                      /\ profiles[n].job_title = jobs[k].job_title
                      /\ profiles[n].poster_profile_id = IdOf(jobs[k])
                      /\ profiles[n].poster_profile_url
                            = normalize_profile_url(jobs[k].poster_profile_url)
                      /\ "?" \notin Range(profiles[n].poster_profile_url)
                      /\ profiles[n].poster_profile_url[
                            Len(profiles[n].poster_profile_url)] = "/"

\* Two records of one profile, the second with a query string: the first
\* is the one kept.
C31_Witness ==
    /\ pc = "loaded"
    /\ Len(profiles) = 1
    /\ profiles[1].job_title = 1
    /\ \E raw \in files :
          /\ Len(raw) = 2
          /\ raw[1].poster_profile_url # raw[2].poster_profile_url
          /\ "?" \in Range(raw[2].poster_profile_url)
          /\ IdOf(raw[1]) = IdOf(raw[2])
          /\ validate_profile_url(raw[1].poster_profile_url)
          /\ validate_profile_url(raw[2].poster_profile_url)

\* C32: the budget of a run is read once, when the loop is entered, as the
\* smaller of the number of profiles retained and the daily remainder of
\* that moment, and does not change while the loop runs; the profiles
\* started are never more than the budget, whatever the attempts give, and
\* they are the front of the retained batch, in its order.
C32_StartedWithinBudget ==
    /\ [](pc \in {"loop", "navigate", "inspect", "send", "record", "summary"} =>
             /\ Len(visited) <= max_to_send
             /\ max_to_send <= Len(profiles_to_contact)
             /\ visited = SubSeq(profiles_to_contact, 1, Len(visited)))
    /\ [][(Login /\ pc' = "loop") =>
             /\ max_to_send' <= get_quota_status.daily_remaining
             /\ (max_to_send' = get_quota_status.daily_remaining
                    \/ max_to_send' = Len(profiles_to_contact))]_vars
    /\ [][(pc \in {"loop", "navigate", "inspect", "send", "record"}
              /\ pc' \in {"loop", "navigate", "inspect", "send", "record",
                          "summary"}) =>
             /\ max_to_send' = max_to_send
             /\ profiles_to_contact' = profiles_to_contact]_vars

\* Two profiles are retained and the day leaves room for one: the loop ends
\* with the first of them started and no other.
C32_Witness ==
    /\ pc = "summary"
    /\ Len(profiles_to_contact) = 2
    /\ max_to_send = 1
    /\ visited = <<profiles_to_contact[1]>>
    /\ sent_count = 0

\* C33: when a success is recorded, the delay between requests is slept
\* before the loop goes on to the next profile, and the longer break is
\* slept after it exactly when the successes of the run so far are a
\* positive multiple of PAUSE_EVERY_N and a profile of the budget is still
\* to come; after a failed or an already_connected outcome neither the
\* delay between requests nor the break is slept.
C33_Pacing ==
    [][(Record /\ pc' = "loop") =>
          LET sent == Cardinality({k \in 1 .. Len(connections') :
                         /\ connections'[k].status = "success"
                         /\ connections'[k].profile_id \in Range(visited)})
              more == Len(visited) < max_to_send
          IN IF result.status = "success"
             THEN /\ slept'[1] = "request_delay"
                  /\ Len(slept') \in {1, 2}
                  /\ (Len(slept') = 2) =>  slept'[2] = "break"
                  /\ ("break" \in Range(slept')) <=>
                        (sent > 0 /\ sent % PAUSE_EVERY_N = 0 /\ more)
             ELSE /\ "request_delay" \notin Range(slept')
                  /\ "break" \notin Range(slept')]_vars

\* The second request of a run is sent with a third profile in the budget:
\* the delay and the break are slept.
C33_Witness ==
    /\ pc = "loop"
    /\ sent_count = PAUSE_EVERY_N
    /\ Len(visited) = PAUSE_EVERY_N
    /\ max_to_send > Len(visited)
    /\ slept = <<"request_delay", "break">>

\* The rows of a status written by the run under way.
WrittenInRun(status) ==
    Cardinality({k \in 1 .. Len(connections) :
                    /\ connections[k].status = status
                    /\ connections[k].profile_id \in Range(visited)})

\* C34: when the loop is over, by the budget or by a quota stop, the counts
\* the run reports include the profiles skipped for the quota, the four
\* counts add up to the profiles retained, and the counts of sent, already
\* connected and failed are the rows of status success, already_connected
\* and failed the run wrote.
C34_FinalCounts ==
    pc = "summary" =>
       /\ RunSummary.sent = WrittenInRun("success")
       /\ RunSummary.already_connected = WrittenInRun("already_connected")
       /\ RunSummary.failed = WrittenInRun("failed")
       /\ "skipped_by_quota" \in DOMAIN RunSummary
       /\ RunSummary.sent + RunSummary.already_connected + RunSummary.failed
             + RunSummary.skipped_by_quota = Len(profiles_to_contact)

\* C35: once Connect was clicked for a profile, the attempt goes on to the
\* recording step, also when the verification after the click raises a
\* driver exception other than NoSuchElementException, and the recording
\* step leaves a row for the profile in the ledger, so that the filter of a
\* later run drops the profile.
C35_ClickedIsRecorded ==
    /\ [][(Send /\ send_connection_with_verification(answers).clicked) =>
             /\ pc' = "record"
             /\ clicked'
             /\ profiles_to_contact'[i'] = Current]_vars
    /\ [][(pc = "record" /\ clicked /\ pc' = "loop") =>
             \E t \in Targets :
                /\ t = Current
                /\ t \in Ids(connections')
                /\ FilterContacted(<<t>>)' = <<>>]_vars

\* The success rows of a ledger with sent_at on the local day of t.
OnDayOf(rows, t) ==
    Cardinality({k \in 1 .. Len(rows) :
                    /\ rows[k].status = "success"
                    /\ DayOf(rows[k].sent_at) = DayOf(t)})

\* C36: under a fixed daily limit of 1 or more, after any sequence of runs,
\* no local calendar day holds more success rows than the limit.  A row is
\* dated by the clock of its write: when local midnight passes between the
\* quota check of a request and its write, the new day holds no success yet,
\* and the write of a success leaves its day within the limit.
C36_DayNeverOverfull ==
    /\ [](daily_limit >= 1 =>
             /\ sm_daily_limit = daily_limit
             /\ \A t \in Times : OnDayOf(connections, t) <= daily_limit)
    /\ [][(Tick /\ daily_limit >= 1
                /\ pc \in {"navigate", "inspect", "send", "record"}
                /\ DayOf(clock') > DayOf(clock)) =>
             OnDayOf(connections, clock') = 0]_vars
    /\ [][(Record /\ daily_limit >= 1 /\ pc' = "loop"
                  /\ result.status = "success") =>
             /\ connections'[Len(connections')].sent_at = clock
             /\ OnDayOf(connections', clock) = OnDayOf(connections, clock) + 1
             /\ OnDayOf(connections', clock) <= daily_limit]_vars

\* A run that spans local midnight: its first request is written at the last
\* instant of a day, its second at the first instant of the next.
C36_Witness ==
    /\ daily_limit >= 1
    /\ pc = "loop"
    /\ Len(visited) = 2
    /\ clock = TicksPerDay
    /\ RowsOf(visited[1]) # {}
    /\ RowsOf(visited[2]) # {}
    /\ connections[RowIndex(visited[1])].sent_at = TicksPerDay - 1
    /\ connections[RowIndex(visited[1])].status = "success"
    /\ connections[RowIndex(visited[2])].sent_at = TicksPerDay
    /\ connections[RowIndex(visited[2])].status = "success"

\* The rows get_requests_this_week counts.
CountedThisWeek ==
    {k \in 1 .. Len(connections) :
        /\ connections[k].sent_at >= week_ago
        /\ connections[k].status = "success"}

\* C37: whatever the offset between local time and UTC, the rows among
\* which suggest_next_run_time takes the oldest are exactly the rows
\* get_requests_this_week counts: one boundary of the 7-day window, on the
\* clock of the stored sent_at.
C37_SameWindow ==
    \A utc_offset \in UtcOffsets :
       /\ oldest_request_rows(utc_offset) = CountedThisWeek
       /\ Cardinality(oldest_request_rows(utc_offset)) = get_requests_this_week

\* C38: the daily limit the Safety Manager enforces is the integer it was
\* built with, whatever that integer is; built with 0, can_send_request
\* answers False in every state of the ledger.
C38_EffectiveLimits ==
    /\ sm_daily_limit = daily_limit
    /\ get_quota_status.daily_limit = daily_limit
    /\ daily_limit = 0 => ~can_send_request[1]

\* C39: when can_send_request refuses at the check before the run, or the
\* filter keeps no profile, the run ends there: main returns, no browser
\* session is started, no profile is navigated to and the ledger is as it was.
C39_EarlyReturnFrame ==
    /\ [][(StartRun /\ (~can_send_request[1]
                           \/ FilterContacted(profiles') = <<>>)) =>
             /\ pc' \in {"refused", "nothing"}
             /\ (pc' = "refused") <=> ~can_send_request[1]
             /\ connections' = connections
             /\ visited' = <<>>]_vars
    /\ [][(pc \in {"refused", "nothing"}) =>
             /\ pc' \in {pc, "idle"}
             /\ (pc' = "idle" /\ ~Interrupt) => (Return /\ exit' = "returned")
             /\ connections' = connections
             /\ clicks' = clicks
             /\ visited' = <<>>]_vars
    /\ [](pc \in {"refused", "nothing"} => visited = <<>> /\ max_to_send = 0)

\* The check before a run refused while the file holds a profile that has
\* no row.
C39_Witness ==
    /\ pc = "refused"
    /\ ~can_send
    /\ Len(connections) >= 1
    /\ \E k \in 1 .. Len(profiles) : RowsOf(profiles[k]) = {}

\* The steps an attempt is away from its outcome, at most.
StepsToOutcome ==
    IF pc = "navigate" THEN 3
    ELSE IF pc = "inspect" THEN 2
    ELSE IF pc = "send" THEN 1
    ELSE 0

\* A step of the run itself: not the clock, not Ctrl+C.
RunStep == ~Tick /\ ~Interrupt

\* C40: while the driver answers and nothing but the driver fails, every
\* step of an attempt brings it nearer to its outcome, whatever the driver
\* answers, so an attempt reaches success, already_connected or failed in
\* three steps at most (the wait for the modal ends by its timeout); every
\* outcome recorded moves the loop on by one profile, and the loop, never
\* beyond the budget, goes on to the summary and the export.
C40_RunTerminates ==
    /\ [][(RunStep /\ pc \in {"navigate", "inspect", "send"}) =>
             /\ pc' \in {"inspect", "send", "record"}
             /\ StepsToOutcome' < StepsToOutcome
             /\ (pc' = "record") =>
                   result'.status \in {"success", "already_connected", "failed"}]_vars
    /\ [][(RunStep /\ pc = "record") =>
             \/ pc' = "loop" /\ i' = i + 1 /\ max_to_send' = max_to_send
             \/ exit' = "fatal: sqlite3.Error"]_vars
    /\ [][(RunStep /\ pc = "loop") =>
             /\ i <= max_to_send + 1
             /\ (i > max_to_send) => pc' = "summary"
             /\ pc' \in {"navigate", "summary"}]_vars
    /\ [][(RunStep /\ pc = "summary") => pc' = "export"]_vars

====
